---- MODULE Spec2Model ----
(***************************************************************************)
(* A model of the calculation engine of the finance dashboard              *)
(* (src/src/lib/calculations/finance.ts), of the debug utilities, of the   *)
(* totals of the Forecast and Dashboard pages, and of the record stores    *)
(* (LocalRepository, updateBankAccountBalance) under the Income and Loans  *)
(* pages.                                                                  *)
(*                                                                         *)
(* Specifications.  Spec is the engine with the totals of the pages, one   *)
(* call per behaviour.  AccountsSpec is the bank accounts store under its  *)
(* callers, IncomeSpec the Income page, LoansSpec the Loans page, each a   *)
(* sequence of whole calls of one tab; TabsSpec is two tabs whose calls of *)
(* updateBankAccountBalance interleave at the accesses to localStorage.    *)
(*                                                                         *)
(* Numbers.  A JavaScript number is modelled as a record [n, d]: the exact *)
(* rational n/d in lowest terms with d > 0, or one of the three non-finite *)
(* values, encoded with d = 0: NaN = 0/0, Infinity = 1/0, -Infinity = -1/0.*)
(* The arithmetic operators follow IEEE 754 on the non-finite cases (0/0   *)
(* and Infinity - Infinity are NaN, x/0 is an infinity, NaN is absorbing   *)
(* and compares false with everything).                                    *)
(*                                                                         *)
(* Round-off.  A double carries an error of relative size 2^-53, far below *)
(* every distance between two distinct values of this model, so it can     *)
(* change a result only where a value is compared with a threshold it lies *)
(* exactly on: a half cent in Math.round(x * 100) / 100.  There the double *)
(* is either just below the threshold or not, and which of the two depends *)
(* on the operands alone.  The model keeps the exact value and draws that  *)
(* one bit (an "error sign", -1 for below, 1 for not below) where a        *)
(* computed value lies on a half cent; a repeated evaluation of the same   *)
(* expression on the same operands reuses the bit drawn the first time.    *)
(***************************************************************************)
EXTENDS Integers, Sequences, FiniteSets, TLC

VARIABLES
    pc,                 \* generateAmortizationSchedule: "idle", "loop", "returned"
    principal,          \* its arguments
    interestRate,
    tenureMonths,
    month,              \* its locals
    remainingPrincipal,
    exactEmi,
    schedule,
    previous,           \* the schedule the preceding call with these arguments returned
    fpErr,              \* the error signs drawn for the rows of the first call
    emiErr,             \* the error sign of exactEmi
    call,               \* the closed-form function called last, with its arguments
                        \* and result, until a schedule is asked for
    storedAccounts,     \* localStorage: the array under finance_app_bank_accounts
    storedIncomes,      \* localStorage: the array under finance_app_income
    storedLoans,        \* localStorage: the array under finance_app_loans
    current,            \* page state: currentIncome or currentLoan, the record in the form
    ret,                \* the operation run last on the stores, with what it returned
    tabs,               \* the position and locals of each tab's updateBankAccountBalance
    uuid                \* the number of ids uuidv4 has handed out

\* the calculation engine and the debug utilities
engineVars == <<pc, principal, interestRate, tenureMonths, month, remainingPrincipal,
                exactEmi, schedule, previous, fpErr, emiErr, call>>

\* the stores and the pages over them
pageVars == <<storedAccounts, storedIncomes, storedLoans, current, ret, tabs, uuid>>

vars == <<pc, principal, interestRate, tenureMonths, month, remainingPrincipal,
          exactEmi, schedule, previous, fpErr, emiErr, call, storedAccounts,
          storedIncomes, storedLoans, current, ret, tabs, uuid>>

(***************************************************************************)
(* Bounds and input domains.                                               *)
(***************************************************************************)
MaxTenure == 3
MaxYears == 1
MaxProjectionYears == 3
MaxForecastYears == 6
MaxListLen == 2
MaxIds == 3
MaxBalance == 20
MaxIncomes == 2
MaxLoans == 2

\* the number of years debugForecastCalculation projects at most
DebugYears == 5

\* the least k for which Math.pow(1 + 30 / 100 / 12, k) is Infinity: 1.025^k is
\* then above the largest double, 2^1024 (1 - 2^-53)
OverflowExponent == 28745

\* loans: whole amounts, annual rates in percent (30 and 120 are 1/40 and 1/10 a month)
Principals == {1, 81, 84, 100}
Rates == {0, 30, 120}
Tenures == 1 .. MaxTenure
\* the principal and rate of the schedules: the same, and a single cent at 120%
ScheduleLoans == {<<[n |-> P, d |-> 1], rate>> : P \in Principals, rate \in Rates}
                     \cup {<<[n |-> 1, d |-> 100], 120>>}

\* investments and goals: annual rates of -600, 0 and 1200 percent are -1/2, 0 and 1
\* a month, the rates whose compounding over MaxYears + 1 years stays within TLC's
\* integers
Amounts == {0, 10, 50}
Contributions == {0, 5}
GrowthRates == {-600, 0, 1200}
\* investments also at -2400 percent, -2 a month, where 1 + r is -1
InvestmentRates == GrowthRates \cup {-2400}
Years == 0 .. MaxYears

\* wealth projections: net worths and yearly savings as numbers (negative, zero,
\* below a cent, on a half cent), yearly growth rates in percent
NetWorths == {[n |-> -100, d |-> 1], [n |-> 0, d |-> 1], [n |-> 1, d |-> 8],
              [n |-> 100, d |-> 1]}
YearlySavings == {[n |-> -5, d |-> 1], [n |-> 0, d |-> 1], [n |-> 1, d |-> 1000],
                  [n |-> 1, d |-> 50], [n |-> 5, d |-> 1]}
ProjectionRates == {-50, 0, 50}
ProjectionYears == 0 .. MaxProjectionYears

\* prepayments: loans of 1 and 10 at 0 and 120 percent over Tenures, prepayments
\* from one cent to more than the principal
PrepaymentPrincipals == {1, 10}
PrepaymentRates == {0, 120}
\* forecasts: monthly amounts, savings rates, yearly returns and inflation in percent
ForecastNetWorths == {[n |-> -100, d |-> 1], [n |-> 1, d |-> 16], [n |-> 100, d |-> 1]}
MonthlyIncomes == {0, 100}
MonthlyExpenses == {0, 50}
MonthlyEMIs == {0, 75}
SavingsRates == {-10, 0, 20}
InvestmentReturns == {0, 50}
InflationRates == {0, 100}
ForecastYears == 0 .. MaxForecastYears

\* net worth: lists of at most MaxListLen assets, bank accounts and loans
AssetRecords == [currentValue : {0, 50}]
BankAccountRecords == {[balance |-> 10, isAsset |-> TRUE],
                       [balance |-> 200, isAsset |-> TRUE],
                       [balance |-> 200, isAsset |-> FALSE]}
LoanRecords == [principal : {100, 300}]
\* stored incomes and expenses of the Forecast and Dashboard pages
Frequencies == {"ONE_TIME", "WEEKLY", "MONTHLY", "QUARTERLY", "HALF_YEARLY", "YEARLY"}
IncomeRecords == [frequency : Frequencies, amount : {12}]
ExpenseRecords == [frequency : {"ONE_TIME", "WEEKLY", "MONTHLY"}, amount : {5}]
\* the assets, bank accounts and loans stored beside them
Holdings == {[assets |-> <<>>, bankAccounts |-> <<>>, loans |-> <<>>],
             [assets |-> <<[currentValue |-> 50]>>,
              bankAccounts |-> <<[balance |-> 10, isAsset |-> TRUE],
                                 [balance |-> 200, isAsset |-> FALSE]>>,
              loans |-> <<[principal |-> 100, emi |-> 9]>>]}
\* bank accounts: opening balances, and the amounts added to a balance
Balances == {0, 10}
BalanceChanges == {-10, -5, 5}
\* the Income form: the amount typed (0 is refused) and the account chosen, 0 for none
FormAmounts == {0, 5, 10}
FormAccounts == {0, 1, 2}
\* the Loans form: the principal, rate and tenure typed, as parseFloat and parseInt
\* read them; the last tenure is one whose growth factor overflows a double
FormPrincipals == {0, 1, 100}
FormRates == {0, 30, 40, 41}
FormTenures == {0, 1, 2, OverflowExponent}
\* two tabs on the same localStorage, and what each adds to a balance
Tabs == {1, 2}
TabAmounts == {5, 10}
TabAccounts == {1, 2}
ListsOf(S) == UNION {[1 .. len -> S] : len \in 0 .. MaxListLen}

Prepayments == {[n |-> 1, d |-> 100], [n |-> 1, d |-> 1], [n |-> 5, d |-> 1],
                [n |-> 10, d |-> 1], [n |-> 15, d |-> 1]}

(***************************************************************************)
(* JavaScript numbers.                                                     *)
(***************************************************************************)
Abs(i) == IF i < 0 THEN -i ELSE i

Sign(i) == IF i < 0 THEN -1 ELSE IF i > 0 THEN 1 ELSE 0

RECURSIVE GCD(_, _)
GCD(a, b) == IF b = 0 THEN a ELSE GCD(b, a % b)

NaN == [n |-> 0, d |-> 0]
PosInf == [n |-> 1, d |-> 0]
NegInf == [n |-> -1, d |-> 0]

Num(i) == [n |-> i, d |-> 1]

IsNaN(x) == x.d = 0 /\ x.n = 0
IsFinite(x) == x.d # 0
IsZero(x) == x.d # 0 /\ x.n = 0

\* n/d with d # 0, in lowest terms with a positive denominator
Rat(n, d) ==
    LET g == GCD(Abs(n), Abs(d))
    IN  [n |-> Sign(d) * (n \div g), d |-> Abs(d) \div g]

Neg(x) == [n |-> -x.n, d |-> x.d]

\* x + y
Add(x, y) ==
    IF IsNaN(x) \/ IsNaN(y) THEN NaN
    ELSE IF x.d = 0 /\ y.d = 0 THEN (IF x.n = y.n THEN x ELSE NaN)
    ELSE IF x.d = 0 THEN x
    ELSE IF y.d = 0 THEN y
    ELSE LET g == GCD(x.d, y.d)
         IN  Rat(x.n * (y.d \div g) + y.n * (x.d \div g), (x.d \div g) * y.d)

\* x - y
Sub(x, y) == Add(x, Neg(y))

\* x * y
Mul(x, y) ==
    IF IsNaN(x) \/ IsNaN(y) THEN NaN
    ELSE IF x.d = 0 \/ y.d = 0
         THEN (IF x.n = 0 \/ y.n = 0 THEN NaN
               ELSE [n |-> Sign(x.n) * Sign(y.n), d |-> 0])
    ELSE LET g1 == GCD(Abs(x.n), y.d)
             g2 == GCD(Abs(y.n), x.d)
         IN  [n |-> (x.n \div g1) * (y.n \div g2), d |-> (x.d \div g2) * (y.d \div g1)]

\* x / y (a zero divisor is +0: none of the modelled divisors is a negative zero)
Div(x, y) ==
    IF IsNaN(x) \/ IsNaN(y) THEN NaN
    ELSE IF y.d = 0 THEN (IF x.d = 0 THEN NaN ELSE Num(0))
    ELSE IF y.n = 0 THEN (IF x.n = 0 THEN NaN ELSE [n |-> Sign(x.n), d |-> 0])
    ELSE Mul(x, [n |-> Sign(y.n) * y.d, d |-> Abs(y.n)])

\* Math.pow(x, k) for an integer k >= 0
RECURSIVE Pow(_, _)
Pow(x, k) == IF k = 0 THEN Num(1) ELSE Mul(x, Pow(x, k - 1))

\* x < y and x <= y (false when either side is NaN)
Lt(x, y) == ~IsNaN(x) /\ ~IsNaN(y) /\ x # y /\ Sub(x, y).n < 0
Le(x, y) == ~IsNaN(x) /\ ~IsNaN(y) /\ (x = y \/ Sub(x, y).n < 0)

\* x lies exactly on a half cent: 200 x is an integer and 100 x is not
AtHalfCent(x) == x.d # 0 /\ 200 % x.d = 0 /\ 100 % x.d # 0

\* the error signs a computed value x can carry into a rounding
ErrChoices(x) == IF AtHalfCent(x) THEN {-1, 1} ELSE {1}

\* Math.round(x * 100) / 100 of the double whose exact value is x and whose
\* error has sign err; Math.round rounds half up, and keeps NaN and the infinities
Round2(x, err) ==
    IF x.d = 0 \/ 100 % x.d = 0 THEN x
    ELSE LET g == GCD(100, x.d)
             c == 100 \div g
             dd == x.d \div g
             q == x.n \div dd
             r == x.n % dd
             cents == c * q + ((2 * c * r + dd) \div (2 * dd))
         IN  Rat(IF AtHalfCent(x) /\ err < 0 THEN cents - 1 ELSE cents, 100)

(***************************************************************************)
(* calculateEMI                                                            *)
(***************************************************************************)
\* interestRate / 100 / 12
MonthlyRate(rate) == Rat(rate, 1200)

\* Math.pow(x, k) is Infinity: decided for the bases of at least 1.025; the other
\* powers taken here are far inside the doubles
PowOverflows(x, k) == IsFinite(x) /\ Le(Rat(41, 40), x) /\ k >= OverflowExponent

\* Math.pow(1 + monthlyRate, tenureMonths)
MathPow(x, k) == IF PowOverflows(x, k) THEN PosInf ELSE Pow(x, k)

\* P * r * (1 + r)^n / ((1 + r)^n - 1), unrounded
EmiFormula(P, rate, n) ==
    LET monthlyRate == MonthlyRate(rate)
        growth == MathPow(Add(Num(1), monthlyRate), n)
    IN  Div(Mul(Mul(Num(P), monthlyRate), growth), Sub(growth, Num(1)))

\* the amortization formula of calculateEMI for a principal that is a number
EmiFormulaOf(P, rate, n) ==
    LET monthlyRate == MonthlyRate(rate)
        growth == MathPow(Add(Num(1), monthlyRate), n)
    IN  Div(Mul(Mul(P, monthlyRate), growth), Sub(growth, Num(1)))

calculateEMI(P, rate, n, err) == Round2(EmiFormula(P, rate, n), err)

\* no closed-form function has been called; the functions keep no state, so a
\* behaviour evaluates one call of one of them, or generates schedules
NoCall == [fn |-> "none", args |-> <<>>, result |-> Num(0)]

\* a call of calculateEMI on arguments drawn from the input domains
CallCalculateEMI ==
    /\ pc = "idle"
    /\ call = NoCall
    /\ \E P \in Principals, rate \in Rates, n \in Tenures :
          \E err \in ErrChoices(EmiFormula(P, rate, n)) :
            call' = [fn |-> "calculateEMI", args |-> <<P, rate, n>>,
                     result |-> calculateEMI(P, rate, n, err)]
    /\ UNCHANGED <<pc, principal, interestRate, tenureMonths, month,
                   remainingPrincipal, exactEmi, schedule, previous, fpErr, emiErr>>
    /\ UNCHANGED pageVars

(***************************************************************************)
(* calculateInvestmentGrowth                                               *)
(***************************************************************************)
\* the initial amount divided by the growth factor
GrowthFormulaDiscounting(initialAmount, monthlyContribution, annualRate, years) ==
    LET growth == Pow(Add(Num(1), Rat(annualRate, 1200)), years * 12)
    IN  Add(Div(Num(initialAmount), growth),
            Div(Mul(Num(monthlyContribution), Sub(growth, Num(1))),
                Rat(annualRate, 1200)))

\* initialGrowth + contributionGrowth, unrounded
GrowthFormula(initialAmount, monthlyContribution, annualRate, years) ==
    LET monthlyRate == MonthlyRate(annualRate)
        totalMonths == years * 12
        growth == Pow(Add(Num(1), monthlyRate), totalMonths)
        initialGrowth == Mul(Num(initialAmount), growth)
        contributionGrowth ==
            Div(Mul(Num(monthlyContribution), Sub(growth, Num(1))), monthlyRate)
    IN  Add(initialGrowth, contributionGrowth)

calculateInvestmentGrowth(initialAmount, monthlyContribution, annualRate, years, err) ==
    Round2(GrowthFormula(initialAmount, monthlyContribution, annualRate, years), err)

CallCalculateInvestmentGrowth ==
    /\ pc = "idle"
    /\ call = NoCall
    /\ \E initialAmount \in Amounts, monthlyContribution \in Contributions,
          annualRate \in InvestmentRates, years \in Years :
          \E err \in ErrChoices(GrowthFormula(initialAmount, monthlyContribution,
                                              annualRate, years)) :
            call' = [fn |-> "calculateInvestmentGrowth",
                     args |-> <<initialAmount, monthlyContribution, annualRate, years>>,
                     result |-> calculateInvestmentGrowth(initialAmount,
                                    monthlyContribution, annualRate, years, err)]
    /\ UNCHANGED <<pc, principal, interestRate, tenureMonths, month,
                   remainingPrincipal, exactEmi, schedule, previous, fpErr, emiErr>>
    /\ UNCHANGED pageVars

(***************************************************************************)
(* calculateMonthlySavingsForGoal                                          *)
(***************************************************************************)
\* targetAmount - futureValueOfCurrent
AmountToSave(targetAmount, currentAmount, yearsToGoal, annualRate) ==
    LET growth == Pow(Add(Num(1), MonthlyRate(annualRate)), yearsToGoal * 12)
    IN  Sub(Num(targetAmount), Mul(Num(currentAmount), growth))

\* whether the double computed for amountToSave can lie above an exact value of 0:
\* only when the growth factor is not 1 (Math.pow(x, 0) and Math.pow(1, n) are
\* exactly 1, and the product and the difference of whole amounts are then exact)
AboveChoices(targetAmount, currentAmount, yearsToGoal, annualRate) ==
    IF /\ IsZero(AmountToSave(targetAmount, currentAmount, yearsToGoal, annualRate))
       /\ Pow(Add(Num(1), MonthlyRate(annualRate)), yearsToGoal * 12) # Num(1)
    THEN BOOLEAN
    ELSE {FALSE}

\* the test written as amountToSave < 0
AmountToSaveLtZero(amountToSave, above) == Lt(amountToSave, Num(0))

\* amountToSave <= 0, for the double whose exact value is amountToSave
AmountToSaveLeZero(amountToSave, above) ==
    Lt(amountToSave, Num(0)) \/ (IsZero(amountToSave) /\ ~above)

\* amountToSave / (((1 + r)^n - 1) / r), unrounded
SavingsFormula(targetAmount, currentAmount, yearsToGoal, annualRate) ==
    LET monthlyRate == MonthlyRate(annualRate)
        growth == Pow(Add(Num(1), monthlyRate), yearsToGoal * 12)
    IN  Div(AmountToSave(targetAmount, currentAmount, yearsToGoal, annualRate),
            Div(Sub(growth, Num(1)), monthlyRate))

calculateMonthlySavingsForGoal(targetAmount, currentAmount, yearsToGoal, annualRate, above, err) ==
    IF AmountToSaveLeZero(
           AmountToSave(targetAmount, currentAmount, yearsToGoal, annualRate), above)
    THEN Num(0)
    ELSE Round2(SavingsFormula(targetAmount, currentAmount, yearsToGoal, annualRate),
                err)

CallCalculateMonthlySavingsForGoal ==
    /\ pc = "idle"
    /\ call = NoCall
    /\ \E targetAmount \in Amounts, currentAmount \in Amounts,
          yearsToGoal \in Years, annualRate \in GrowthRates :
          \E above \in AboveChoices(targetAmount, currentAmount, yearsToGoal,
                                    annualRate),
             err \in ErrChoices(SavingsFormula(targetAmount, currentAmount,
                                               yearsToGoal, annualRate)) :
            call' = [fn |-> "calculateMonthlySavingsForGoal",
                     args |-> <<targetAmount, currentAmount, yearsToGoal, annualRate>>,
                     result |-> calculateMonthlySavingsForGoal(targetAmount,
                                    currentAmount, yearsToGoal, annualRate, above, err)]
    /\ UNCHANGED <<pc, principal, interestRate, tenureMonths, month,
                   remainingPrincipal, exactEmi, schedule, previous, fpErr, emiErr>>
    /\ UNCHANGED pageVars

(***************************************************************************)
(* generateAmortizationSchedule, one action per loop iteration             *)
(***************************************************************************)
\* the error signs of the four values a row rounds
RowErrs(emi, principalPayment, interestPayment, remaining) ==
    [emi : ErrChoices(emi),
     principalPayment : ErrChoices(principalPayment),
     interestPayment : ErrChoices(interestPayment),
     remainingPrincipal : ErrChoices(remaining)]

\* LastRow with the balance reported as it stood before the payment
LastRowKeepsBalance(m, principalPayment, interestPayment, err) ==
    [month |-> m,
     emi |-> Round2(Add(interestPayment, principalPayment), err.emi),
     principalPayment |-> Round2(principalPayment, err.principalPayment),
     interestPayment |-> Round2(interestPayment, err.interestPayment),
     remainingPrincipal |-> Round2(principalPayment, err.remainingPrincipal)]

\* the row pushed when month === tenureMonths
LastRow(m, principalPayment, interestPayment, err) ==
    [month |-> m,
     emi |-> Round2(Add(interestPayment, principalPayment), err.emi),
     principalPayment |-> Round2(principalPayment, err.principalPayment),
     interestPayment |-> Round2(interestPayment, err.interestPayment),
     remainingPrincipal |-> Num(0)]

\* MidRow with the two portions of the payment interchanged
MidRowSwapped(m, emi, principalPayment, interestPayment, remaining, err) ==
    [month |-> m,
     emi |-> Round2(emi, err.emi),
     principalPayment |-> Round2(interestPayment, err.interestPayment),
     interestPayment |-> Round2(principalPayment, err.principalPayment),
     remainingPrincipal |-> Round2(remaining, err.remainingPrincipal)]

\* MidRow with the emi reported as the sum of the two rounded portions
MidRowEmiFromPortions(m, emi, principalPayment, interestPayment, remaining, err) ==
    [month |-> m,
     emi |-> Add(Round2(principalPayment, err.principalPayment),
                 Round2(interestPayment, err.interestPayment)),
     principalPayment |-> Round2(principalPayment, err.principalPayment),
     interestPayment |-> Round2(interestPayment, err.interestPayment),
     remainingPrincipal |-> Round2(remaining, err.remainingPrincipal)]

\* MidRow with the whole payment reported as its principal portion
MidRowWholePayment(m, emi, principalPayment, interestPayment, remaining, err) ==
    [month |-> m,
     emi |-> Round2(emi, err.emi),
     principalPayment |-> Round2(emi, err.emi),
     interestPayment |-> Round2(interestPayment, err.interestPayment),
     remainingPrincipal |-> Round2(remaining, err.remainingPrincipal)]

\* MidRow with the month's principal payment reported as the balance
MidRowReportsPayment(m, emi, principalPayment, interestPayment, remaining, err) ==
    [month |-> m,
     emi |-> Round2(emi, err.emi),
     principalPayment |-> Round2(principalPayment, err.principalPayment),
     interestPayment |-> Round2(interestPayment, err.interestPayment),
     remainingPrincipal |-> Round2(principalPayment, err.principalPayment)]

\* the row pushed in every other month; remaining is the balance after the payment
MidRow(m, emi, principalPayment, interestPayment, remaining, err) ==
    [month |-> m,
     emi |-> Round2(emi, err.emi),
     principalPayment |-> Round2(principalPayment, err.principalPayment),
     interestPayment |-> Round2(interestPayment, err.interestPayment),
     remainingPrincipal |-> Round2(remaining, err.remainingPrincipal)]

\* Call with the rows of the preceding call left in the array
CallKeepsRows(P, rate, n) ==
    /\ principal' = P
    /\ interestRate' = rate
    /\ tenureMonths' = n
    /\ remainingPrincipal' = P
    /\ schedule' = schedule
    /\ exactEmi' = EmiFormulaOf(P, rate, n)
    /\ month' = 1
    /\ pc' = "loop"

\* entry of the function: the locals set before the loop
Call(P, rate, n) ==
    /\ principal' = P
    /\ interestRate' = rate
    /\ tenureMonths' = n
    /\ remainingPrincipal' = P
    /\ schedule' = <<>>
    /\ exactEmi' = EmiFormulaOf(P, rate, n)
    /\ month' = 1
    /\ pc' = "loop"

\* a first call, on arguments drawn from the input domains
Generate ==
    /\ pc = "idle"
    /\ call = NoCall
    /\ \E loan \in ScheduleLoans, n \in Tenures :
          /\ Call(loan[1], loan[2], n)
          /\ emiErr' \in ErrChoices(EmiFormulaOf(loan[1], loan[2], n))
    /\ previous' = <<>>
    /\ fpErr' = <<>>
    /\ call' = NoCall
    /\ UNCHANGED pageVars

\* a second call with the same arguments, after the first has returned
GenerateAgain ==
    /\ pc = "returned"
    /\ previous = <<>>
    /\ Call(principal, interestRate, tenureMonths)
    /\ previous' = schedule
    /\ UNCHANGED <<fpErr, emiErr, call>>
    /\ UNCHANGED pageVars

\* one iteration of the loop
Row ==
    /\ pc = "loop"
    /\ month <= tenureMonths
    /\ LET monthlyRate == MonthlyRate(interestRate)
           interestPayment == Mul(remainingPrincipal, monthlyRate)
           last == month = tenureMonths
           principalPayment == IF last THEN remainingPrincipal
                               ELSE Sub(exactEmi, interestPayment)
           remaining == IF last THEN remainingPrincipal
                        ELSE Sub(remainingPrincipal, principalPayment)
           drawn == IF last
                    THEN RowErrs(Add(interestPayment, principalPayment),
                                 principalPayment, interestPayment, Num(0))
                    ELSE {e \in RowErrs(exactEmi, principalPayment,
                                        interestPayment, remaining) : e.emi = emiErr}
       IN  \E err \in (IF previous = <<>> THEN drawn ELSE {fpErr[month]}) :
             /\ schedule' = Append(schedule,
                    IF last
                    THEN LastRow(month, principalPayment, interestPayment, err)
                    ELSE MidRow(month, exactEmi, principalPayment, interestPayment,
                                remaining, err))
             /\ remainingPrincipal' = remaining
             /\ fpErr' = IF previous = <<>> THEN Append(fpErr, err) ELSE fpErr
    /\ month' = month + 1
    /\ UNCHANGED <<pc, principal, interestRate, tenureMonths, exactEmi, previous,
                   emiErr, call>>
    /\ UNCHANGED pageVars

\* the loop condition fails: return schedule
Return ==
    /\ pc = "loop"
    /\ month > tenureMonths
    /\ pc' = "returned"
    /\ UNCHANGED <<principal, interestRate, tenureMonths, month, remainingPrincipal,
                   exactEmi, schedule, previous, fpErr, emiErr, call>>
    /\ UNCHANGED pageVars

(***************************************************************************)
(* generateWealthProjection                                                *)
(***************************************************************************)
\* 1 + growthRate / 100
GrowthFactor(growthRate) == Rat(100 + growthRate, 100)

\* the loop condition written as year < years
YearBelowYears(year, years) == year < years

\* the loop condition year <= years
YearWithinYears(year, years) == year <= years

\* the point reporting the value as it is
ProjectionPointUnrounded(year, currentNetWorth, err) ==
    [year |-> year, netWorth |-> currentNetWorth]

\* { year, netWorth: Math.round(currentNetWorth * 100) / 100 }
ProjectionPoint(year, currentNetWorth, err) ==
    [year |-> year, netWorth |-> Round2(currentNetWorth, err)]

\* the update without the savings
NextNetWorthWithoutSavings(currentNetWorth, yearlySavings, growthRate) ==
    Mul(currentNetWorth, Rat(100 + growthRate, 100))

\* the update applied to the rounded value
NextNetWorthOfRounded(currentNetWorth, yearlySavings, growthRate) ==
    Add(Mul(Round2(currentNetWorth, 1), Rat(100 + growthRate, 100)), yearlySavings)

\* currentNetWorth * (1 + growthRate / 100) + yearlySavings
NextNetWorth(currentNetWorth, yearlySavings, growthRate) ==
    Add(Mul(currentNetWorth, GrowthFactor(growthRate)), yearlySavings)

\* the iterations of the loop from year on; errs[year + 1] is the error sign of the
\* value rounded for that year
RECURSIVE ProjectionFrom(_, _, _, _, _, _)
ProjectionFrom(year, currentNetWorth, yearlySavings, growthRate, years, errs) ==
    IF ~YearWithinYears(year, years) THEN <<>>
    ELSE <<ProjectionPoint(year, currentNetWorth, errs[year + 1])>>
         \o ProjectionFrom(year + 1,
                           NextNetWorth(currentNetWorth, yearlySavings, growthRate),
                           yearlySavings, growthRate, years, errs)

generateWealthProjection(initialNetWorth, yearlySavings, growthRate, years, errs) ==
    ProjectionFrom(0, initialNetWorth, yearlySavings, growthRate, years, errs)

\* the value of currentNetWorth when the point of a year is pushed
RECURSIVE NetWorthAt(_, _, _, _)
NetWorthAt(initialNetWorth, yearlySavings, growthRate, year) ==
    IF year = 0 THEN initialNetWorth
    ELSE NextNetWorth(NetWorthAt(initialNetWorth, yearlySavings, growthRate, year - 1),
                      yearlySavings, growthRate)

\* the sequences of error signs a sequence of rounded values can carry
RECURSIVE ErrSeqs(_)
ErrSeqs(values) ==
    IF values = <<>> THEN {<<>>}
    ELSE {<<err>> \o rest : err \in ErrChoices(Head(values)),
                             rest \in ErrSeqs(Tail(values))}

\* the error signs of the years + 1 values a projection rounds
ProjectionErrs(initialNetWorth, yearlySavings, growthRate, years) ==
    ErrSeqs([i \in 1 .. years + 1 |->
                NetWorthAt(initialNetWorth, yearlySavings, growthRate, i - 1)])

CallGenerateWealthProjection ==
    /\ pc = "idle"
    /\ call = NoCall
    /\ \E initialNetWorth \in NetWorths, yearlySavings \in YearlySavings,
          growthRate \in ProjectionRates, years \in ProjectionYears :
          \E errs \in ProjectionErrs(initialNetWorth, yearlySavings, growthRate, years) :
            call' = [fn |-> "generateWealthProjection",
                     args |-> <<initialNetWorth, yearlySavings, growthRate, years>>,
                     result |-> generateWealthProjection(initialNetWorth,
                                    yearlySavings, growthRate, years, errs)]
    /\ UNCHANGED <<pc, principal, interestRate, tenureMonths, month,
                   remainingPrincipal, exactEmi, schedule, previous, fpErr, emiErr>>
    /\ UNCHANGED pageVars

(***************************************************************************)
(* calculatePrepaymentImpact                                               *)
(***************************************************************************)
\* the prepayment added to the principal
ReducedPrincipalAdded(P, prepaymentAmount) == Add(Num(P), prepaymentAmount)

\* principal - prepaymentAmount
ReducedPrincipal(P, prepaymentAmount) == Sub(Num(P), prepaymentAmount)

\* the test written as reducedPrincipal < 0
ReducedPrincipalLtZero(reducedPrincipal) == Lt(reducedPrincipal, Num(0))

\* reducedPrincipal <= 0
ReducedPrincipalLeZero(reducedPrincipal) == Le(reducedPrincipal, Num(0))

\* the least k >= from with a <= b^k, for a finite a and b > 1
RECURSIVE LeastPower(_, _, _)
LeastPower(a, b, from) ==
    IF Le(a, Pow(b, from)) THEN from ELSE LeastPower(a, b, from + 1)

\* the greatest j >= from with b^j <= x, for a finite x >= b^from and b > 1
RECURSIVE GreatestPower(_, _, _)
GreatestPower(x, b, from) ==
    IF Lt(x, Pow(b, from + 1)) THEN from ELSE GreatestPower(x, b, from + 1)

\* a > 1 is exactly a power of b > 1: the quotient of the two logarithms is then a
\* whole number in exact arithmetic, and the double computed for it can lie above
OnPower(a, b) ==
    /\ IsFinite(a)
    /\ Lt(Num(1), a)
    /\ Lt(Num(1), b)
    /\ Pow(b, LeastPower(a, b, 0)) = a

UpChoices(a, b) == IF OnPower(a, b) THEN BOOLEAN ELSE {FALSE}

\* Math.ceil(Math.log(a) / Math.log(b)) for b >= 1; up says that the double computed
\* for a whole quotient lies above it
CeilLogQuotient(a, b, up) ==
    IF IsNaN(a) \/ a.n < 0 THEN NaN
    ELSE IF b = Num(1)
         THEN (IF a = Num(1) THEN NaN
               ELSE IF a.d = 0 \/ Lt(Num(1), a) THEN PosInf
               ELSE NegInf)
    ELSE IF a.d = 0 THEN PosInf
    ELSE IF a.n = 0 THEN NegInf
    ELSE IF Lt(a, Num(1)) THEN Num(0 - GreatestPower(Div(Num(1), a), b, 0))
    ELSE Num(LeastPower(a, b, 0) + (IF OnPower(a, b) /\ up THEN 1 ELSE 0))

\* Option 1: Math.ceil(Math.log(originalEMI / (originalEMI - reducedPrincipal *
\* monthlyRate)) / Math.log(1 + monthlyRate))
TenureQuotient(originalEMI, reducedPrincipal, rate) ==
    Div(originalEMI, Sub(originalEMI, Mul(reducedPrincipal, MonthlyRate(rate))))

ReducedTenure(originalEMI, reducedPrincipal, rate, up) ==
    CeilLogQuotient(TenureQuotient(originalEMI, reducedPrincipal, rate),
                    Add(Num(1), MonthlyRate(rate)), up)

\* originalTotalPayment - reducedTotalPayment - prepaymentAmount, unrounded
InterestSaved(originalEMI, reducedEMI, n, prepaymentAmount) ==
    Sub(Sub(Mul(originalEMI, Num(n)), Mul(reducedEMI, Num(n))), prepaymentAmount)

\* the result of the branch reducedPrincipal <= 0
FullClearance(P, rate, n, prepaymentAmount, originalEMI) ==
    [originalEMI |-> originalEMI,
     originalTenure |-> Num(n),
     reducedEMI |-> Num(0),
     reducedTenure |-> Num(0),
     interestSaved |-> Sub(Mul(Mul(Num(P), MonthlyRate(rate)), Num(n)),
                           prepaymentAmount),
     tenureSaved |-> Num(n)]

\* the result of a partial prepayment
PartialPrepayment(P, rate, n, prepaymentAmount, originalEMI, errs) ==
    LET reducedPrincipal == ReducedPrincipal(P, prepaymentAmount)
        reducedTenure == ReducedTenure(originalEMI, reducedPrincipal, rate, errs.up)
        reducedEMI == Round2(EmiFormulaOf(reducedPrincipal, rate, n), errs.reducedEMI)
        interestSaved == InterestSaved(originalEMI, reducedEMI, n, prepaymentAmount)
    IN  [originalEMI |-> originalEMI,
         originalTenure |-> Num(n),
         reducedEMI |-> reducedEMI,
         reducedTenure |-> reducedTenure,
         interestSaved |-> Round2(interestSaved, errs.interestSaved),
         tenureSaved |-> Sub(Num(n), reducedTenure)]

calculatePrepaymentImpact(P, rate, n, prepaymentAmount, errs) ==
    LET originalEMI == calculateEMI(P, rate, n, errs.originalEMI)
    IN  IF ReducedPrincipalLeZero(ReducedPrincipal(P, prepaymentAmount))
        THEN FullClearance(P, rate, n, prepaymentAmount, originalEMI)
        ELSE PartialPrepayment(P, rate, n, prepaymentAmount, originalEMI, errs)

\* the error signs of the roundings of a call, and of its quotient of logarithms
PrepaymentErrs(P, rate, n, prepaymentAmount) ==
    {errs \in [originalEMI : ErrChoices(EmiFormula(P, rate, n)),
               reducedEMI : ErrChoices(EmiFormulaOf(
                                ReducedPrincipal(P, prepaymentAmount), rate, n)),
               interestSaved : {-1, 1},
               up : BOOLEAN] :
        LET originalEMI == calculateEMI(P, rate, n, errs.originalEMI)
            reducedPrincipal == ReducedPrincipal(P, prepaymentAmount)
            reducedEMI == Round2(EmiFormulaOf(reducedPrincipal, rate, n),
                                 errs.reducedEMI)
        IN  /\ errs.interestSaved \in ErrChoices(InterestSaved(originalEMI,
                                          reducedEMI, n, prepaymentAmount))
            /\ errs.up \in UpChoices(TenureQuotient(originalEMI, reducedPrincipal,
                                                    rate),
                                     Add(Num(1), MonthlyRate(rate)))}

CallCalculatePrepaymentImpact ==
    /\ pc = "idle"
    /\ call = NoCall
    /\ \E P \in PrepaymentPrincipals, rate \in PrepaymentRates, n \in Tenures,
          prepaymentAmount \in Prepayments :
          \E errs \in PrepaymentErrs(P, rate, n, prepaymentAmount) :
            call' = [fn |-> "calculatePrepaymentImpact",
                     args |-> <<P, rate, n, prepaymentAmount>>,
                     result |-> calculatePrepaymentImpact(P, rate, n,
                                    prepaymentAmount, errs)]
    /\ UNCHANGED <<pc, principal, interestRate, tenureMonths, month,
                   remainingPrincipal, exactEmi, schedule, previous, fpErr, emiErr>>
    /\ UNCHANGED pageVars

(***************************************************************************)
(* debugForecastCalculation (debug utilities) and generateProjection       *)
(* (Forecast page)                                                         *)
(***************************************************************************)
Min(a, b) == IF a < b THEN a ELSE b

\* x lies exactly on a half
AtHalf(x) == x.d = 2

WholeErrChoices(x) == IF AtHalf(x) THEN {-1, 1} ELSE {1}

\* Math.round(x) of the double whose exact value is x and whose error has sign err
RoundWhole(x, err) ==
    IF x.d = 0 THEN x
    ELSE Num(((2 * x.n + x.d) \div (2 * x.d)) - (IF AtHalf(x) /\ err < 0 THEN 1 ELSE 0))

\* netWorth * investmentReturn / 100
YearlyGrowth(netWorth, investmentReturn) ==
    Div(Mul(netWorth, Num(investmentReturn)), Num(100))

\* the loop running over all the years
RECURSIVE DebugProjectionUncapped(_, _, _, _, _, _)
DebugProjectionUncapped(year, netWorth, yearlySavings, investmentReturn, years, errs) ==
    IF year > years THEN <<>>
    ELSE <<[year |-> year,
            netWorth |-> Round2(netWorth, 1),
            yearlyGrowth |-> Num(0),
            yearlySavings |-> IF year > 0 THEN yearlySavings ELSE Num(0)]>>
         \o DebugProjectionUncapped(year + 1,
                Add(Mul(netWorth, Rat(100 + investmentReturn, 100)), yearlySavings),
                yearlySavings, investmentReturn, years, errs)

\* the iterations of the loop of debugForecastCalculation from year on
RECURSIVE DebugProjectionFrom(_, _, _, _, _, _)
DebugProjectionFrom(year, netWorth, yearlySavings, investmentReturn, years, errs) ==
    IF year > Min(DebugYears, years) THEN <<>>
    ELSE <<[year |-> year,
            netWorth |-> Round2(netWorth, errs.netWorth[year + 1]),
            yearlyGrowth |-> IF year > 0
                             THEN RoundWhole(YearlyGrowth(netWorth, investmentReturn),
                                             errs.yearlyGrowth[year + 1])
                             ELSE Num(0),
            yearlySavings |-> IF year > 0 THEN yearlySavings ELSE Num(0)]>>
         \o DebugProjectionFrom(year + 1,
                IF year < years
                THEN Add(Mul(netWorth, Rat(100 + investmentReturn, 100)), yearlySavings)
                ELSE netWorth,
                yearlySavings, investmentReturn, years, errs)

debugForecastCalculation(initialNetWorth, monthlyIncome, monthlyExpenses, monthlyEMIs, savingsRate, investmentReturn, inflationRate, years, errs) ==
    LET availableIncome == Num(monthlyIncome - monthlyExpenses - monthlyEMIs)
        monthlySavings == IF Lt(Num(0), availableIncome)
                          THEN Div(Mul(availableIncome, Num(savingsRate)), Num(100))
                          ELSE Num(0)
        yearlySavings == Mul(monthlySavings, Num(12))
    IN  [initialNetWorth |-> initialNetWorth,
         monthlyIncome |-> monthlyIncome,
         monthlyExpenses |-> monthlyExpenses,
         monthlyEMIs |-> monthlyEMIs,
         availableIncome |-> availableIncome,
         monthlySavings |-> monthlySavings,
         yearlySavings |-> yearlySavings,
         savingsRate |-> savingsRate,
         investmentReturn |-> investmentReturn,
         inflationRate |-> inflationRate,
         projection |-> DebugProjectionFrom(0, initialNetWorth, yearlySavings,
                                            investmentReturn, years, errs)]

\* the value of netWorth when the point of a year is pushed, for the yearly savings
\* the function derives
RECURSIVE DebugNetWorthAt(_, _, _, _)
DebugNetWorthAt(initialNetWorth, yearlySavings, investmentReturn, year) ==
    IF year = 0 THEN initialNetWorth
    ELSE Add(Mul(DebugNetWorthAt(initialNetWorth, yearlySavings, investmentReturn,
                                 year - 1),
                 Rat(100 + investmentReturn, 100)),
             yearlySavings)

\* the sequences of error signs a sequence of values rounded to whole numbers can
\* carry
RECURSIVE WholeErrSeqs(_)
WholeErrSeqs(values) ==
    IF values = <<>> THEN {<<>>}
    ELSE {<<err>> \o rest : err \in WholeErrChoices(Head(values)),
                             rest \in WholeErrSeqs(Tail(values))}

\* the error signs of the roundings of a call of debugForecastCalculation
DebugErrs(initialNetWorth, yearlySavings, investmentReturn, years) ==
    LET values == [i \in 1 .. Min(DebugYears, years) + 1 |->
                      DebugNetWorthAt(initialNetWorth, yearlySavings,
                                      investmentReturn, i - 1)]
    IN  [netWorth : ErrSeqs(values),
         yearlyGrowth : WholeErrSeqs([i \in 1 .. Len(values) |->
                                         YearlyGrowth(values[i], investmentReturn)])]

\* yearlySavings as both functions derive it from their arguments
DerivedYearlySavings(monthlyIncome, monthlyExpenses, monthlyEMIs, savingsRate) ==
    IF monthlyIncome - monthlyExpenses - monthlyEMIs > 0
    THEN Rat((monthlyIncome - monthlyExpenses - monthlyEMIs) * savingsRate * 12, 100)
    ELSE Num(0)

CallDebugForecastCalculation ==
    /\ pc = "idle"
    /\ call = NoCall
    /\ \E initialNetWorth \in ForecastNetWorths, monthlyIncome \in MonthlyIncomes,
          monthlyExpenses \in MonthlyExpenses, monthlyEMIs \in MonthlyEMIs,
          savingsRate \in SavingsRates, investmentReturn \in InvestmentReturns,
          inflationRate \in InflationRates, years \in ForecastYears :
          \E errs \in DebugErrs(initialNetWorth,
                                DerivedYearlySavings(monthlyIncome, monthlyExpenses,
                                                     monthlyEMIs, savingsRate),
                                investmentReturn, years) :
            call' = [fn |-> "debugForecastCalculation",
                     args |-> <<initialNetWorth, monthlyIncome, monthlyExpenses,
                                monthlyEMIs, savingsRate, investmentReturn,
                                inflationRate, years>>,
                     result |-> debugForecastCalculation(initialNetWorth,
                                    monthlyIncome, monthlyExpenses, monthlyEMIs,
                                    savingsRate, investmentReturn, inflationRate,
                                    years, errs)]
    /\ UNCHANGED <<pc, principal, interestRate, tenureMonths, month,
                   remainingPrincipal, exactEmi, schedule, previous, fpErr, emiErr>>
    /\ UNCHANGED pageVars

\* generateProjection of the Forecast page: its locals and the projection it stores
\* with setProjectionData
generateProjection(initialNetWorth, monthlyIncome, monthlyExpenses, monthlyEMIs, years, savingsRate, inflationRate, investmentReturn, errs) ==
    LET availableIncome == Num(monthlyIncome - monthlyExpenses - monthlyEMIs)
        monthlySavings == IF Lt(Num(0), availableIncome)
                          THEN Div(Mul(availableIncome, Num(savingsRate)), Num(100))
                          ELSE Num(0)
        yearlySavings == Mul(monthlySavings, Num(12))
        projection == generateWealthProjection(initialNetWorth, yearlySavings,
                                               investmentReturn, years, errs)
        projectionWithInflation ==
            [i \in 1 .. Len(projection) |->
                LET inflationFactor == Pow(Rat(100 + inflationRate, 100),
                                           projection[i].year)
                IN  [year |-> projection[i].year,
                     netWorth |-> projection[i].netWorth,
                     netWorthAfterInflation |->
                         Div(projection[i].netWorth, inflationFactor)]]
    IN  [availableIncome |-> availableIncome,
         monthlySavings |-> monthlySavings,
         yearlySavings |-> yearlySavings,
         projectionData |-> projectionWithInflation]

CallGenerateProjection ==
    /\ pc = "idle"
    /\ call = NoCall
    /\ \E initialNetWorth \in ForecastNetWorths, monthlyIncome \in MonthlyIncomes,
          monthlyExpenses \in MonthlyExpenses, monthlyEMIs \in MonthlyEMIs,
          years \in ForecastYears, savingsRate \in SavingsRates,
          inflationRate \in InflationRates, investmentReturn \in InvestmentReturns :
          \E errs \in ProjectionErrs(initialNetWorth,
                                     DerivedYearlySavings(monthlyIncome,
                                         monthlyExpenses, monthlyEMIs, savingsRate),
                                     investmentReturn, years) :
            call' = [fn |-> "generateProjection",
                     args |-> <<initialNetWorth, monthlyIncome, monthlyExpenses,
                                monthlyEMIs, years, savingsRate, inflationRate,
                                investmentReturn>>,
                     result |-> generateProjection(initialNetWorth, monthlyIncome,
                                    monthlyExpenses, monthlyEMIs, years, savingsRate,
                                    inflationRate, investmentReturn, errs)]
    /\ UNCHANGED <<pc, principal, interestRate, tenureMonths, month,
                   remainingPrincipal, exactEmi, schedule, previous, fpErr, emiErr>>
    /\ UNCHANGED pageVars

(***************************************************************************)
(* debugNetWorthCalculation (debug utilities)                              *)
(***************************************************************************)
\* assets.reduce((sum, asset) => sum + asset.currentValue, 0)
RECURSIVE AssetsTotal(_)
AssetsTotal(assets) ==
    IF assets = <<>> THEN 0
    ELSE AssetsTotal(SubSeq(assets, 1, Len(assets) - 1))
         + assets[Len(assets)].currentValue

\* every bank account taken as an asset
AllBankAccounts(bankAccounts) == bankAccounts

\* bankAccounts.filter(account => account.isAsset)
AssetBankAccounts(bankAccounts) == SelectSeq(bankAccounts, LAMBDA account : account.isAsset)

\* assetBankAccounts.reduce((sum, account) => sum + account.balance, 0)
RECURSIVE BankAccountsTotal(_)
BankAccountsTotal(accounts) ==
    IF accounts = <<>> THEN 0
    ELSE BankAccountsTotal(SubSeq(accounts, 1, Len(accounts) - 1))
         + accounts[Len(accounts)].balance

\* loans.reduce((sum, loan) => sum + loan.principal, 0)
RECURSIVE LiabilitiesTotal(_)
LiabilitiesTotal(loans) ==
    IF loans = <<>> THEN 0
    ELSE LiabilitiesTotal(SubSeq(loans, 1, Len(loans) - 1))
         + loans[Len(loans)].principal

\* the breakdown returned, without its display strings and names
debugNetWorthCalculation(assets, bankAccounts, loans) ==
    LET assetsTotal == AssetsTotal(assets)
        assetBankAccounts == AssetBankAccounts(bankAccounts)
        bankAccountsTotal == BankAccountsTotal(assetBankAccounts)
        liabilitiesTotal == LiabilitiesTotal(loans)
        totalAssets == assetsTotal + bankAccountsTotal
        netWorth == totalAssets - liabilitiesTotal
    IN  [assets |-> [total |-> assetsTotal,
                     details |-> [i \in 1 .. Len(assets) |->
                                     [value |-> assets[i].currentValue]]],
         bankAccounts |-> [total |-> bankAccountsTotal,
                           details |-> [i \in 1 .. Len(assetBankAccounts) |->
                                           [isAsset |-> assetBankAccounts[i].isAsset,
                                            balance |-> assetBankAccounts[i].balance]]],
         liabilities |-> [total |-> liabilitiesTotal,
                          details |-> [i \in 1 .. Len(loans) |->
                                          [principal |-> loans[i].principal]]],
         summary |-> [totalAssets |-> totalAssets,
                      totalLiabilities |-> liabilitiesTotal,
                      netWorth |-> netWorth]]

CallDebugNetWorthCalculation ==
    /\ pc = "idle"
    /\ call = NoCall
    /\ \E assets \in ListsOf(AssetRecords), bankAccounts \in ListsOf(BankAccountRecords),
          loans \in ListsOf(LoanRecords) :
            call' = [fn |-> "debugNetWorthCalculation",
                     args |-> <<assets, bankAccounts, loans>>,
                     result |-> debugNetWorthCalculation(assets, bankAccounts, loans)]
    /\ UNCHANGED <<pc, principal, interestRate, tenureMonths, month,
                   remainingPrincipal, exactEmi, schedule, previous, fpErr, emiErr>>
    /\ UNCHANGED pageVars

(***************************************************************************)
(* The totals of the Forecast page (loadData) and of the Dashboard page    *)
(* (calculateDashboardData)                                                *)
(***************************************************************************)
\* the switch on the frequency in loadData: what a record adds to the sum
MonthlyAmount(record) ==
    CASE record.frequency = "ONE_TIME" -> Num(0)
      [] record.frequency = "WEEKLY" -> Mul(Num(record.amount), Rat(433, 100))
      [] record.frequency = "MONTHLY" -> Num(record.amount)
      [] record.frequency = "QUARTERLY" -> Div(Num(record.amount), Num(3))
      [] record.frequency = "HALF_YEARLY" -> Div(Num(record.amount), Num(6))
      [] record.frequency = "YEARLY" -> Div(Num(record.amount), Num(12))
      [] OTHER -> Num(0)

\* incomes.reduce(...) and expenses.reduce(...) of loadData
RECURSIVE ForecastMonthlyTotal(_)
ForecastMonthlyTotal(records) ==
    IF records = <<>> THEN Num(0)
    ELSE Add(ForecastMonthlyTotal(SubSeq(records, 1, Len(records) - 1)),
             MonthlyAmount(records[Len(records)]))

\* loans.reduce((sum, loan) => sum + loan.emi, 0)
RECURSIVE MonthlyEMIsTotal(_)
MonthlyEMIsTotal(loans) ==
    IF loans = <<>> THEN 0
    ELSE MonthlyEMIsTotal(SubSeq(loans, 1, Len(loans) - 1)) + loans[Len(loans)].emi

\* the totals loadData hands to the page state and to the projection
loadData(assets, bankAccounts, loans, incomes, expenses) ==
    LET assetsTotal == AssetsTotal(assets)
        bankAccountsTotal == BankAccountsTotal(AssetBankAccounts(bankAccounts))
        totalAssetsWithBankAccounts == assetsTotal + bankAccountsTotal
        liabilitiesTotal == LiabilitiesTotal(loans)
    IN  [netWorth |-> totalAssetsWithBankAccounts - liabilitiesTotal,
         monthlyIncome |-> ForecastMonthlyTotal(incomes),
         monthlyExpenses |-> ForecastMonthlyTotal(expenses),
         monthlyEMIs |-> MonthlyEMIsTotal(loans)]

CallLoadData ==
    /\ pc = "idle"
    /\ call = NoCall
    /\ \E held \in Holdings, incomes \in ListsOf(IncomeRecords),
          expenses \in ListsOf(ExpenseRecords) :
            call' = [fn |-> "loadData",
                     args |-> <<held.assets, held.bankAccounts, held.loans,
                                incomes, expenses>>,
                     result |-> loadData(held.assets, held.bankAccounts, held.loans,
                                         incomes, expenses)]
    /\ UNCHANGED <<pc, principal, interestRate, tenureMonths, month,
                   remainingPrincipal, exactEmi, schedule, previous, fpErr, emiErr>>
    /\ UNCHANGED pageVars

\* records.filter(r => r.frequency === 'MONTHLY').reduce((sum, r) => sum + r.amount, 0)
RECURSIVE DashboardMonthlyTotal(_)
DashboardMonthlyTotal(records) ==
    IF records = <<>> THEN Num(0)
    ELSE LET rest == DashboardMonthlyTotal(SubSeq(records, 1, Len(records) - 1))
             last == records[Len(records)]
         IN  IF last.frequency = "MONTHLY" THEN Add(rest, Num(last.amount)) ELSE rest

\* the totals calculateDashboardData hands to the page state
calculateDashboardData(assets, bankAccounts, loans, incomes, expenses) ==
    LET calculatedAssetsTotal == AssetsTotal(assets)
        calculatedBankAccountsTotal == BankAccountsTotal(AssetBankAccounts(bankAccounts))
        totalAssetsWithBankAccounts == calculatedAssetsTotal + calculatedBankAccountsTotal
        liabilitiesTotal == LiabilitiesTotal(loans)
    IN  [assetsTotal |-> calculatedAssetsTotal,
         bankAccountsTotal |-> calculatedBankAccountsTotal,
         totalAssets |-> totalAssetsWithBankAccounts,
         totalLiabilities |-> liabilitiesTotal,
         netWorth |-> totalAssetsWithBankAccounts - liabilitiesTotal,
         monthlyIncome |-> DashboardMonthlyTotal(incomes),
         monthlyExpenses |-> DashboardMonthlyTotal(expenses)]

CallCalculateDashboardData ==
    /\ pc = "idle"
    /\ call = NoCall
    /\ \E held \in Holdings, incomes \in ListsOf(IncomeRecords),
          expenses \in ListsOf(ExpenseRecords) :
            call' = [fn |-> "calculateDashboardData",
                     args |-> <<held.assets, held.bankAccounts, held.loans,
                                incomes, expenses>>,
                     result |-> calculateDashboardData(held.assets, held.bankAccounts,
                                                       held.loans, incomes, expenses)]
    /\ UNCHANGED <<pc, principal, interestRate, tenureMonths, month,
                   remainingPrincipal, exactEmi, schedule, previous, fpErr, emiErr>>
    /\ UNCHANGED pageVars

(***************************************************************************)
(* LocalRepository (localDB): a store is the array kept under a key of     *)
(* localStorage. A call runs in one piece: the page's JavaScript is        *)
(* single-threaded and localStorage is synchronous. uuidv4 is taken to     *)
(* hand out an id no item has; the ids are numbered as handed out, and 0   *)
(* is an id that was never handed out. createdAt and updatedAt are left    *)
(* out. The whole amounts kept here are written by JSON.stringify and read *)
(* back by JSON.parse as themselves.                                       *)
(***************************************************************************)
\* null, and the absence of an operation
Null == [null |-> TRUE]
NoOperation == [op |-> "none"]

\* items.findIndex(item => item.id === id), counted from 1; 0 for -1
FindIndex(items, id) ==
    IF \E i \in 1 .. Len(items) : items[i].id = id
    THEN CHOOSE i \in 1 .. Len(items) :
             items[i].id = id /\ \A j \in 1 .. i - 1 : items[j].id # id
    ELSE 0

\* items.find(item => item.id === id) || null
getById(items, id) ==
    IF FindIndex(items, id) = 0 THEN Null ELSE items[FindIndex(items, id)]

\* add: the array saved and the item returned; id is the value of uuidv4()
add(items, item, id) ==
    LET newItem == [id |-> id] @@ item
    IN  [items |-> Append(items, newItem), result |-> newItem]

\* update: the array saved (the one read, when nothing is saved) and the value
\* returned; the fields of updates overwrite those of the item
update(items, id, updates) ==
    LET index == FindIndex(items, id)
    IN  IF index = 0 THEN [items |-> items, result |-> Null]
        ELSE LET updatedItem == updates @@ items[index]
             IN  [items |-> [items EXCEPT ![index] = updatedItem],
                  result |-> updatedItem]

\* delete that drops the items stored after the one deleted too
DeleteToEnd(items, id) ==
    LET index == FindIndex(items, id)
    IN  IF index = 0 THEN [items |-> items, result |-> FALSE]
        ELSE [items |-> SubSeq(items, 1, index - 1), result |-> TRUE]

\* delete: the array saved (the one read, when nothing is saved) and the value
\* returned
delete(items, id) ==
    LET newItems == SelectSeq(items, LAMBDA item : item.id # id)
    IN  IF Len(newItems) = Len(items) THEN [items |-> items, result |-> FALSE]
        ELSE [items |-> newItems, result |-> TRUE]

(***************************************************************************)
(* updateBankAccountBalance (bankAccountUtils)                             *)
(***************************************************************************)
\* no balance is refused
NeverRefused(newBalance) == FALSE

\* newBalance < 0
NegativeBalance(newBalance) == newBalance < 0

\* the accounts stored after the call and the value returned
updateBankAccountBalance(accounts, bankAccountId, amount) ==
    LET bankAccount == getById(accounts, bankAccountId)
    IN  IF bankAccount = Null THEN [items |-> accounts, result |-> Null]
        ELSE LET newBalance == bankAccount.balance + amount
             IN  IF NegativeBalance(newBalance)
                 THEN [items |-> accounts, result |-> Null]
                 ELSE update(accounts, bankAccount.id, [balance |-> newBalance])

(***************************************************************************)
(* The bank accounts store under its callers: accounts are added, updated  *)
(* and deleted through bankAccountsRepository, and balances are moved with *)
(* updateBankAccountBalance.                                               *)
(***************************************************************************)
\* the ids handed out so far, and one that never was
KnownIds == 0 .. uuid

AddAccount ==
    /\ uuid < MaxIds
    /\ \E balance \in Balances :
          LET done == add(storedAccounts, [balance |-> balance], uuid + 1)
          IN  /\ storedAccounts' = done.items
              /\ ret' = [op |-> "add", id |-> uuid + 1, before |-> storedAccounts,
                         result |-> done.result]
    /\ uuid' = uuid + 1
    /\ UNCHANGED <<storedIncomes, storedLoans, current, tabs>>
    /\ UNCHANGED engineVars

UpdateAccount ==
    /\ \E id \in KnownIds, balance \in Balances :
          LET done == update(storedAccounts, id, [balance |-> balance])
          IN  /\ storedAccounts' = done.items
              /\ ret' = [op |-> "update", id |-> id, before |-> storedAccounts,
                         result |-> done.result]
    /\ UNCHANGED <<storedIncomes, storedLoans, current, tabs, uuid>>
    /\ UNCHANGED engineVars

DeleteAccount ==
    /\ \E id \in KnownIds :
          LET done == delete(storedAccounts, id)
          IN  /\ storedAccounts' = done.items
              /\ ret' = [op |-> "delete", id |-> id, before |-> storedAccounts,
                         result |-> done.result]
    /\ UNCHANGED <<storedIncomes, storedLoans, current, tabs, uuid>>
    /\ UNCHANGED engineVars

CallUpdateBankAccountBalance ==
    /\ \E id \in KnownIds, amount \in BalanceChanges :
          LET done == updateBankAccountBalance(storedAccounts, id, amount)
          IN  /\ done.result # Null => done.result.balance <= MaxBalance
              /\ storedAccounts' = done.items
              /\ ret' = [op |-> "updateBankAccountBalance", id |-> id,
                         amount |-> amount, before |-> storedAccounts,
                         result |-> done.result]
    /\ UNCHANGED <<storedIncomes, storedLoans, current, tabs, uuid>>
    /\ UNCHANGED engineVars

\* no function of the engine has been called
EngineIdle ==
    /\ pc = "idle"
    /\ principal = Num(0)
    /\ interestRate = 0
    /\ tenureMonths = 0
    /\ month = 0
    /\ remainingPrincipal = Num(0)
    /\ exactEmi = Num(0)
    /\ schedule = <<>>
    /\ previous = <<>>
    /\ fpErr = <<>>
    /\ emiErr = 1
    /\ call = NoCall

Init ==
    /\ EngineIdle
    /\ storedAccounts = <<>>
    /\ storedIncomes = <<>>
    /\ storedLoans = <<>>
    /\ current = Null
    /\ ret = NoOperation
    /\ tabs = <<>>
    /\ uuid = 0

Next ==
    \/ Generate
    \/ GenerateAgain
    \/ Row
    \/ Return
    \/ CallCalculateEMI
    \/ CallCalculateInvestmentGrowth
    \/ CallCalculateMonthlySavingsForGoal
    \/ CallGenerateWealthProjection
    \/ CallCalculatePrepaymentImpact
    \/ CallDebugForecastCalculation
    \/ CallGenerateProjection
    \/ CallDebugNetWorthCalculation
    \/ CallLoadData
    \/ CallCalculateDashboardData

Spec == Init /\ [][Next]_vars

\* the bank accounts store: nothing is stored before the first add
AccountsNext ==
    \/ AddAccount
    \/ UpdateAccount
    \/ DeleteAccount
    \/ CallUpdateBankAccountBalance

AccountsSpec == Init /\ [][AccountsNext]_vars

(***************************************************************************)
(* The Loans page: handleEdit, the Add Loan button, handleSubmit and       *)
(* handleDelete, over the stored loans. JSON.stringify writes a number     *)
(* that is NaN or an infinity as null.                                     *)
(***************************************************************************)
\* a number as JSON.parse reads it back after JSON.stringify
JsonNumber(x) == IF x = Null THEN Null ELSE IF IsFinite(x) THEN x ELSE Null

\* the loans as saveAll stores them
JsonLoans(items) ==
    [i \in 1 .. Len(items) |-> [items[i] EXCEPT !.emi = JsonNumber(@)]]

\* validateForm of the Loans page, on the numbers parsed from the form
ValidLoan(P, rate, n) ==
    /\ ~(P <= 0)
    /\ ~(rate <= 0 \/ rate > 40)
    /\ ~(n <= 0)

LoansHandleEdit ==
    /\ \E i \in 1 .. Len(storedLoans) : current' = storedLoans[i]
    /\ ret' = [op |-> "handleEdit"]
    /\ UNCHANGED <<storedAccounts, storedIncomes, storedLoans, tabs, uuid>>
    /\ UNCHANGED engineVars

\* the Add Loan button: the form is emptied (a click with nothing in the form
\* changes nothing that is kept here)
LoansHandleAdd ==
    /\ current # Null
    /\ current' = Null
    /\ ret' = [op |-> "handleAdd"]
    /\ UNCHANGED <<storedAccounts, storedIncomes, storedLoans, tabs, uuid>>
    /\ UNCHANGED engineVars

LoansHandleSubmit ==
    /\ \E P \in FormPrincipals, rate \in FormRates, n \in FormTenures :
          IF ~ValidLoan(P, rate, n)
          THEN /\ ret' = [op |-> "handleSubmit", valid |-> FALSE]
               /\ UNCHANGED <<storedLoans, current, uuid>>
          ELSE \E err \in ErrChoices(EmiFormula(P, rate, n)) :
                  LET emi == calculateEMI(P, rate, n, err)
                      loanData == [principal |-> P, interestRate |-> rate,
                                   tenureMonths |-> n, emi |-> emi]
                      done == IF current # Null
                              THEN update(storedLoans, current.id, loanData)
                              ELSE add(storedLoans, loanData, uuid + 1)
                  IN  /\ current = Null => uuid < MaxLoans
                      /\ storedLoans' = JsonLoans(done.items)
                      /\ uuid' = IF current = Null THEN uuid + 1 ELSE uuid
                      /\ current' = Null
                      /\ ret' = [op |-> "handleSubmit", valid |-> TRUE,
                                 emi |-> emi, saved |-> done.result # Null]
    /\ UNCHANGED <<storedAccounts, storedIncomes, tabs>>
    /\ UNCHANGED engineVars

LoansHandleDelete ==
    /\ \E i \in 1 .. Len(storedLoans) :
          storedLoans' = delete(storedLoans, storedLoans[i].id).items
    /\ ret' = [op |-> "handleDelete"]
    /\ UNCHANGED <<storedAccounts, storedIncomes, current, tabs, uuid>>
    /\ UNCHANGED engineVars

LoansNext ==
    \/ LoansHandleEdit
    \/ LoansHandleAdd
    \/ LoansHandleSubmit
    \/ LoansHandleDelete

LoansSpec == Init /\ [][LoansNext]_vars

(***************************************************************************)
(* Two tabs on one localStorage, each calling updateBankAccountBalance     *)
(* once. A tab's call is a sequence of steps, one for each access to       *)
(* localStorage: the getItem of getById, the getItem of update, and the    *)
(* setItem of saveAll; what a tab computes between two accesses is part of *)
(* the step of the access before it. The steps of the two tabs interleave  *)
(* freely: nothing in the code orders the accesses of different tabs.      *)
(***************************************************************************)
NotCalled == [pc |-> "idle", id |-> 0, amount |-> 0, newBalance |-> 0,
              items |-> <<>>, result |-> Null]

TabsInit ==
    /\ EngineIdle
    /\ \E a, b \in Balances :
          storedAccounts = <<[id |-> 1, balance |-> a, opening |-> a],
                             [id |-> 2, balance |-> b, opening |-> b]>>
    /\ storedIncomes = <<>>
    /\ storedLoans = <<>>
    /\ current = Null
    /\ ret = NoOperation
    /\ tabs = [t \in Tabs |-> NotCalled]
    /\ uuid = 0

\* a tab calls updateBankAccountBalance(id, amount)
TabCall(t) ==
    /\ tabs[t].pc = "idle"
    /\ \E id \in TabAccounts, amount \in TabAmounts :
          tabs' = [tabs EXCEPT ![t] = [@ EXCEPT !.pc = "getById", !.id = id,
                                                !.amount = amount]]
    /\ UNCHANGED <<storedAccounts, storedIncomes, storedLoans, current, ret, uuid>>
    /\ UNCHANGED engineVars

\* bankAccountsRepository.getById reads the store; the balance to write is
\* computed from what was read
TabGetById(t) ==
    /\ tabs[t].pc = "getById"
    /\ LET bankAccount == getById(storedAccounts, tabs[t].id)
       IN  IF bankAccount = Null
           THEN tabs' = [tabs EXCEPT ![t] = [@ EXCEPT !.pc = "returned"]]
           ELSE LET newBalance == bankAccount.balance + tabs[t].amount
                IN  IF NegativeBalance(newBalance)
                    THEN tabs' = [tabs EXCEPT ![t] = [@ EXCEPT !.pc = "returned"]]
                    ELSE tabs' = [tabs EXCEPT ![t] = [@ EXCEPT !.pc = "update",
                                                      !.newBalance = newBalance]]
    /\ UNCHANGED <<storedAccounts, storedIncomes, storedLoans, current, ret, uuid>>
    /\ UNCHANGED engineVars

\* bankAccountsRepository.update reads the store again and puts the new balance
\* into the array it read
TabUpdateGetAll(t) ==
    /\ tabs[t].pc = "update"
    /\ LET done == update(storedAccounts, tabs[t].id, [balance |-> tabs[t].newBalance])
       IN  IF done.result = Null
           THEN tabs' = [tabs EXCEPT ![t] = [@ EXCEPT !.pc = "returned"]]
           ELSE tabs' = [tabs EXCEPT ![t] = [@ EXCEPT !.pc = "saveAll",
                                                      !.items = done.items,
                                                      !.result = done.result]]
    /\ UNCHANGED <<storedAccounts, storedIncomes, storedLoans, current, ret, uuid>>
    /\ UNCHANGED engineVars

\* saveAll writes the array, and the call returns the updated account
TabSaveAll(t) ==
    /\ tabs[t].pc = "saveAll"
    /\ storedAccounts' = tabs[t].items
    /\ tabs' = [tabs EXCEPT ![t] = [@ EXCEPT !.pc = "returned"]]
    /\ UNCHANGED <<storedIncomes, storedLoans, current, ret, uuid>>
    /\ UNCHANGED engineVars

TabsNext ==
    \/ \E t \in Tabs : TabCall(t)
    \/ \E t \in Tabs : TabGetById(t)
    \/ \E t \in Tabs : TabUpdateGetAll(t)
    \/ \E t \in Tabs : TabSaveAll(t)

TabsSpec == TabsInit /\ [][TabsNext]_vars

(***************************************************************************)
(* The Income page: handleEdit, the Add Income button, handleSubmit and    *)
(* handleDelete, over the stored incomes and bank accounts. The page is    *)
(* opened on two bank accounts, with ids 1 and 2, and no income; an        *)
(* account also records the balance it was opened with. The page's list of *)
(* incomes is the stored one, as one tab keeps them equal. An income's     *)
(* bankAccountId of 0 stands for none ('' in the form, undefined in the    *)
(* record).                                                                *)
(***************************************************************************)
IncomeInit ==
    /\ EngineIdle
    /\ \E a, b \in Balances :
          storedAccounts = <<[id |-> 1, balance |-> a, opening |-> a],
                             [id |-> 2, balance |-> b, opening |-> b]>>
    /\ storedIncomes = <<>>
    /\ storedLoans = <<>>
    /\ current = Null
    /\ ret = NoOperation
    /\ tabs = <<>>
    /\ uuid = 0

\* parseFloat(formData.amount) passes validateForm
ValidAmount(amount) == amount > 0

\* the Edit button of a listed income
HandleEdit ==
    /\ \E i \in 1 .. Len(storedIncomes) : current' = storedIncomes[i]
    /\ ret' = [op |-> "handleEdit"]
    /\ UNCHANGED <<storedAccounts, storedIncomes, storedLoans, tabs, uuid>>
    /\ UNCHANGED engineVars

\* the Add Income button: the form is emptied (a click with nothing in the form
\* changes nothing that is kept here)
HandleAdd ==
    /\ current # Null
    /\ current' = Null
    /\ ret' = [op |-> "handleAdd"]
    /\ UNCHANGED <<storedAccounts, storedIncomes, storedLoans, tabs, uuid>>
    /\ UNCHANGED engineVars

\* handleSubmit once validateForm has passed: what is stored afterwards, and
\* what the repository and updateBankAccountBalance returned; id is the id a
\* new income gets
Submit(accounts, incomes, currentIncome, amount, bankAccountId, id) ==
    LET incomeData == [amount |-> amount, bankAccountId |-> bankAccountId]
        amountToAdd == amount
        saved == IF currentIncome # Null THEN update(incomes, currentIncome.id, incomeData)
                 ELSE add(incomes, incomeData, id)
        debit == IF /\ currentIncome # Null
                    /\ saved.result # Null
                    /\ currentIncome.bankAccountId # 0
                    /\ currentIncome.bankAccountId # bankAccountId
                 THEN updateBankAccountBalance(accounts, currentIncome.bankAccountId,
                                               -currentIncome.amount)
                 ELSE [items |-> accounts, result |-> Null]
        credit == IF bankAccountId # 0
                  THEN updateBankAccountBalance(debit.items, bankAccountId, amountToAdd)
                  ELSE [items |-> debit.items, result |-> Null]
    IN  [incomes |-> saved.items, accounts |-> credit.items, saved |-> saved.result,
         debited |-> debit.result # Null, credited |-> credit.result # Null]

HandleSubmit ==
    /\ \E amount \in FormAmounts, bankAccountId \in FormAccounts :
          IF ~ValidAmount(amount)
          THEN /\ ret' = [op |-> "handleSubmit", valid |-> FALSE]
               /\ UNCHANGED <<storedAccounts, storedIncomes, current, uuid>>
          ELSE LET done == Submit(storedAccounts, storedIncomes, current, amount,
                                  bankAccountId, uuid + 1)
               IN  /\ current = Null => uuid < MaxIncomes
                   /\ \A i \in 1 .. Len(done.accounts) :
                         done.accounts[i].balance <= MaxBalance
                   /\ storedIncomes' = done.incomes
                   /\ storedAccounts' = done.accounts
                   /\ uuid' = IF current = Null THEN uuid + 1 ELSE uuid
                   /\ current' = Null
                   /\ ret' = [op |-> "handleSubmit", valid |-> TRUE,
                              currentIncome |-> current, amount |-> amount,
                              bankAccountId |-> bankAccountId,
                              accounts |-> storedAccounts, saved |-> done.saved,
                              debited |-> done.debited, credited |-> done.credited]
    /\ UNCHANGED <<storedLoans, tabs>>
    /\ UNCHANGED engineVars

\* the Delete button of a listed income, confirmed
HandleDelete ==
    /\ \E i \in 1 .. Len(storedIncomes) :
          storedIncomes' = delete(storedIncomes, storedIncomes[i].id).items
    /\ ret' = [op |-> "handleDelete"]
    /\ UNCHANGED <<storedAccounts, storedLoans, current, tabs, uuid>>
    /\ UNCHANGED engineVars

IncomeNext ==
    \/ HandleEdit
    \/ HandleAdd
    \/ HandleSubmit
    \/ HandleDelete

IncomeSpec == IncomeInit /\ [][IncomeNext]_vars


(***************************************************************************)
(* Properties of calculateEMI and generateAmortizationSchedule             *)
(***************************************************************************)
Returned == pc = "returned"

LastCall(fn) == call.fn = fn

\* |x - y| <= cents / 100 (false when a side is not finite)
Within(x, y, cents) ==
    /\ IsFinite(x)
    /\ IsFinite(y)
    /\ Le(Sub(x, y), Rat(cents, 100))
    /\ Le(Sub(y, x), Rat(cents, 100))

RECURSIVE SumPrincipalPayments(_)
SumPrincipalPayments(rows) ==
    IF rows = <<>> THEN Num(0)
    ELSE Add(rows[1].principalPayment, SumPrincipalPayments(Tail(rows)))

\* C1: calculateEMI(principal, 0, tenureMonths) is the finite number
\* principal / tenureMonths rounded to 2 decimals.
C1_ZeroRateEmiIsLinear ==
    (LastCall("calculateEMI") /\ call.args[2] = 0) =>
        /\ IsFinite(call.result)
        /\ \E err \in {-1, 1} :
              call.result = Round2(Div(Num(call.args[1]), Num(call.args[3])), err)

\* C2: for a rate > 0 the last row of the returned schedule reports a remaining
\* principal of exactly 0.
C2_LastRowRemainingIsZero ==
    (Returned /\ interestRate > 0) =>
        /\ Len(schedule) > 0
        /\ schedule[Len(schedule)].remainingPrincipal = Num(0)

\* a schedule of MaxTenure rows for a rate > 0 has been returned, whose running
\* balance was not zero before the last payment and is not a whole number of cents
C2_Witness ==
    /\ Returned
    /\ interestRate > 0
    /\ tenureMonths = MaxTenure
    /\ ~IsZero(remainingPrincipal)
    /\ 100 % remainingPrincipal.d # 0
    /\ schedule[Len(schedule)].remainingPrincipal = Num(0)

\* C3: the returned schedule has exactly tenureMonths rows, numbered 1, 2, ...,
\* tenureMonths in order, and a second call with the same arguments returns an
\* equal schedule.
C3_RowsAreNumberedAndRepeatable ==
    Returned =>
        /\ Len(schedule) = tenureMonths
        /\ \A i \in 1 .. Len(schedule) : schedule[i].month = i
        /\ previous # <<>> => schedule = previous

\* a second call of MaxTenure rows has returned
C3_Witness ==
    /\ Returned
    /\ previous # <<>>
    /\ tenureMonths = MaxTenure
    /\ Len(schedule) = MaxTenure

C5_PrincipalPaymentsAddUp ==
    (Returned /\ interestRate > 0) =>
        Within(SumPrincipalPayments(schedule), principal, tenureMonths)

\* a schedule for a rate > 0 whose reported principal payments do not add up to
\* the principal exactly
C5_Witness ==
    /\ Returned
    /\ interestRate > 0
    /\ tenureMonths > 1
    /\ SumPrincipalPayments(schedule) # principal
    /\ Within(SumPrincipalPayments(schedule), principal, tenureMonths)

\* C6: in every row of every returned schedule the reported principal payment plus
\* the reported interest is within one cent of the reported emi.
C6_PortionsAddUpToEmi ==
    Returned =>
        \A i \in 1 .. Len(schedule) :
            Within(Add(schedule[i].principalPayment, schedule[i].interestPayment),
                   schedule[i].emi, 1)

\* C7 as claimed: for a rate > 0 every row of the returned schedule, the last one
\* included, reports the emi of the first row.
C7_SameEmiInEveryRow ==
    (Returned /\ interestRate > 0) =>
        \A i \in 1 .. Len(schedule) : schedule[i].emi = schedule[1].emi

\* C7 as amended: for a rate > 0 every row before the last reports the emi of the
\* first row, and the last row reports the rounded sum of the interest on the
\* balance carried into it and that balance, which can be another amount.
C7_SameEmiBeforeLastRow ==
    (Returned /\ interestRate > 0) =>
        /\ \A i \in 1 .. Len(schedule) - 1 : schedule[i].emi = schedule[1].emi
        /\ \E err \in {-1, 1} :
              schedule[Len(schedule)].emi =
                  Round2(Add(Mul(remainingPrincipal, MonthlyRate(interestRate)),
                             remainingPrincipal), err)

\* a schedule for a rate > 0 whose last row reports another emi than its first row
C7_Witness ==
    /\ Returned
    /\ interestRate > 0
    /\ Len(schedule) > 1
    /\ schedule[Len(schedule)].emi # schedule[1].emi

(***************************************************************************)
(* Properties of calculateInvestmentGrowth and calculateMonthlySavingsForGoal *)
(***************************************************************************)
\* C8: calculateInvestmentGrowth(initialAmount, monthlyContribution, 0, years) is
\* the finite number initialAmount + monthlyContribution * years * 12.
C8_ZeroRateGrowthIsLinear ==
    (LastCall("calculateInvestmentGrowth") /\ call.args[3] = 0) =>
        /\ IsFinite(call.result)
        /\ call.result = Num(call.args[1] + call.args[2] * call.args[4] * 12)

\* C9: for target > 0, 0 <= current < target and yearsToGoal > 0,
\* calculateMonthlySavingsForGoal(target, current, yearsToGoal, 0) is the finite
\* number (target - current) / (yearsToGoal * 12) rounded to 2 decimals.
C9_ZeroRateSavingsIsLinear ==
    (/\ LastCall("calculateMonthlySavingsForGoal")
     /\ call.args[4] = 0
     /\ call.args[1] > 0
     /\ call.args[2] >= 0
     /\ call.args[2] < call.args[1]
     /\ call.args[3] > 0) =>
        /\ IsFinite(call.result)
        /\ \E err \in {-1, 1} :
              call.result = Round2(Div(Num(call.args[1] - call.args[2]),
                                       Num(call.args[3] * 12)), err)

\* current * (1 + rate / 1200)^(12 * yearsToGoal) >= target
GoalAlreadyMet(targetAmount, currentAmount, yearsToGoal, annualRate) ==
    Le(Num(targetAmount),
       Mul(Num(currentAmount),
           Pow(Add(Num(1), MonthlyRate(annualRate)), yearsToGoal * 12)))

\* C10: calculateMonthlySavingsForGoal returns exactly 0 whenever
\* current * (1 + rate / 1200)^(12 * yearsToGoal) >= target, a rate of 0 included.
C10_GoalAlreadyMetReturnsZero ==
    (/\ LastCall("calculateMonthlySavingsForGoal")
     /\ GoalAlreadyMet(call.args[1], call.args[2], call.args[3], call.args[4])) =>
        call.result = Num(0)

\* a call with a zero rate whose current amount equals a positive target
C10_Witness ==
    /\ LastCall("calculateMonthlySavingsForGoal")
    /\ call.args[4] = 0
    /\ call.args[1] > 0
    /\ call.args[2] = call.args[1]
    /\ call.args[3] > 0
    /\ call.result = Num(0)

(***************************************************************************)
(* Properties of generateWealthProjection                                  *)
(***************************************************************************)
\* C11: generateWealthProjection returns exactly years + 1 points, and their year
\* fields are 0, 1, ..., years in that order.
C11_PointsAreYearsZeroToYears ==
    LastCall("generateWealthProjection") =>
        /\ Len(call.result) = call.args[4] + 1
        /\ \A i \in 1 .. Len(call.result) : call.result[i].year = i - 1

C11_Witness ==
    /\ LastCall("generateWealthProjection")
    /\ call.args[4] >= 2
    /\ Len(call.result) = call.args[4] + 1
    /\ call.result[Len(call.result)].year = call.args[4]

\* C12 as claimed: the year-0 point of generateWealthProjection reports a netWorth exactly
\* equal to initialNetWorth, whatever its sign and number of decimals.
C12_YearZeroIsInitialNetWorth ==
    LastCall("generateWealthProjection") =>
        call.result[1].netWorth = call.args[1]

\* C12 as amended: the year-0 point reports initialNetWorth rounded to 2 decimals,
\* which is initialNetWorth itself when it has at most 2 decimals.
C12_YearZeroIsRoundedInitialNetWorth ==
    LastCall("generateWealthProjection") =>
        /\ \E err \in ErrChoices(call.args[1]) :
              call.result[1].netWorth = Round2(call.args[1], err)
        /\ (100 % call.args[1].d = 0 => call.result[1].netWorth = call.args[1])

\* a projection from a net worth with more than 2 decimals
C12_Witness ==
    /\ LastCall("generateWealthProjection")
    /\ 100 % call.args[1].d # 0
    /\ call.result[1].year = 0
    /\ call.result[1].netWorth # call.args[1]
    /\ 100 % call.result[1].netWorth.d = 0

\* every point after the first reports strictly more than the point before it
StrictlyIncreasing(projection) ==
    \A i \in 1 .. Len(projection) - 1 :
        Lt(projection[i].netWorth, projection[i + 1].netWorth)

RECURSIVE RecurrenceValue(_, _, _, _)
RecurrenceValue(initialNetWorth, yearlySavings, growthRate, k) ==
    IF k = 0 THEN initialNetWorth
    ELSE Add(Mul(RecurrenceValue(initialNetWorth, yearlySavings, growthRate, k - 1),
                 Rat(100 + growthRate, 100)),
             yearlySavings)

\* C14: for every k in 1..years the reported point k is the 2-decimal rounding of
\* x_k, the value of the recurrence applied to unrounded values with no clamping;
\* the rounded value of a year is never the base of the next.
C14_UnroundedValueIsCarried ==
    LastCall("generateWealthProjection") =>
        \A k \in 1 .. call.args[4] :
            /\ k + 1 <= Len(call.result)
            /\ LET x == RecurrenceValue(call.args[1], call.args[2], call.args[3], k)
               IN  \E err \in ErrChoices(x) :
                     call.result[k + 1].netWorth = Round2(x, err)

\* a projection that decreases below zero and in which carrying the rounded value
\* of year 1 would change the point of year 2
C14_Witness ==
    /\ LastCall("generateWealthProjection")
    /\ call.args[4] >= 2
    /\ LET x1 == RecurrenceValue(call.args[1], call.args[2], call.args[3], 1)
           x2 == RecurrenceValue(call.args[1], call.args[2], call.args[3], 2)
           y2 == Add(Mul(Round2(x1, 1), Rat(100 + call.args[3], 100)), call.args[2])
       IN  /\ Round2(y2, 1) # Round2(x2, 1)
           /\ call.result[3].netWorth = Round2(x2, 1)
           /\ Lt(call.result[3].netWorth, call.result[2].netWorth)
           /\ Lt(call.result[3].netWorth, Num(0))

(***************************************************************************)
(* Properties of calculatePrepaymentImpact                                 *)
(***************************************************************************)
\* the last call prepaid the whole principal or more
FullPrepayment ==
    /\ LastCall("calculatePrepaymentImpact")
    /\ Le(Num(call.args[1]), call.args[4])

\* the last call prepaid a part of the principal of a loan with a rate > 0
PartialPrepaymentAtPositiveRate ==
    /\ LastCall("calculatePrepaymentImpact")
    /\ call.args[2] > 0
    /\ Lt(Num(0), call.args[4])
    /\ Lt(call.args[4], Num(call.args[1]))

\* C15: for prepaymentAmount >= principal calculatePrepaymentImpact returns
\* reducedEMI = 0, reducedTenure = 0, tenureSaved = tenureMonths and
\* interestSaved = principal * (rate / 1200) * tenureMonths - prepaymentAmount.
C15_FullPrepaymentClearsLoan ==
    FullPrepayment =>
        /\ call.result.reducedEMI = Num(0)
        /\ call.result.reducedTenure = Num(0)
        /\ call.result.tenureSaved = Num(call.args[3])
        /\ call.result.interestSaved =
               Sub(Mul(Num(call.args[1]), Rat(call.args[2] * call.args[3], 1200)),
                   call.args[4])

\* a prepayment of more than the principal of a loan with a rate > 0
C15_Witness ==
    /\ FullPrepayment
    /\ call.args[2] > 0
    /\ Lt(Num(call.args[1]), call.args[4])
    /\ call.result.reducedTenure = Num(0)
    /\ call.result.tenureSaved = Num(call.args[3])
    /\ Lt(call.result.interestSaved, Num(0))

\* C16: for a rate > 0 and a partial prepayment, however small, reducedTenure is
\* strictly less than originalTenure, so tenureSaved is at least 1.
C16_ReducedTenureIsShorter ==
    PartialPrepaymentAtPositiveRate =>
        /\ Lt(call.result.reducedTenure, call.result.originalTenure)
        /\ Le(Num(1), call.result.tenureSaved)

\* C17 as claimed: for a rate > 0 and a partial prepayment reducedEMI is strictly
\* less than originalEMI.
C17_ReducedEmiIsSmaller ==
    PartialPrepaymentAtPositiveRate =>
        Lt(call.result.reducedEMI, call.result.originalEMI)

\* C17 as amended: for a rate > 0 and a partial prepayment reducedEMI is less than
\* or equal to originalEMI, both being whole numbers of cents.
C17_ReducedEmiIsNotLarger ==
    PartialPrepaymentAtPositiveRate =>
        /\ Le(call.result.reducedEMI, call.result.originalEMI)
        /\ 100 % call.result.reducedEMI.d = 0
        /\ 100 % call.result.originalEMI.d = 0

\* a partial prepayment of one cent that leaves the rounded EMI as it was
C17_Witness ==
    /\ PartialPrepaymentAtPositiveRate
    /\ call.args[4] = Rat(1, 100)
    /\ IsFinite(call.result.originalEMI)
    /\ call.result.reducedEMI = call.result.originalEMI

\* C18: for a rate > 0 and a partial prepayment interestSaved, computed from the
\* rounded EMIs as originalEMI * tenureMonths - reducedEMI * tenureMonths -
\* prepaymentAmount, is greater than 0.
C18_InterestSavedIsPositive ==
    PartialPrepaymentAtPositiveRate =>
        Lt(Num(0), call.result.interestSaved)

(***************************************************************************)
(* Properties of calculateInvestmentGrowth at negative rates               *)
(***************************************************************************)
\* initialAmount + monthlyContribution * 12 * years
PaidIn == Num(call.args[1] + call.args[2] * 12 * call.args[4])

SavingsAsClaimed(result, projection, initialNetWorth, monthlyIncome, monthlyExpenses, monthlyEMIs, savingsRate, investmentReturn, years) ==
    LET availableIncome == monthlyIncome - monthlyExpenses - monthlyEMIs
        monthlySavings == IF availableIncome > 0
                          THEN Rat(availableIncome * savingsRate, 100)
                          ELSE Num(0)
        grown == Mul(initialNetWorth, Rat(100 + investmentReturn, 100))
    IN  /\ result.availableIncome = Num(availableIncome)
        /\ result.monthlySavings = monthlySavings
        /\ result.yearlySavings = Mul(Num(12), monthlySavings)
        /\ Le(Num(0), result.monthlySavings)
        /\ Le(Num(0), result.yearlySavings)
        /\ (IsZero(result.yearlySavings) /\ years >= 1) =>
               \E err \in ErrChoices(grown) : projection[2].netWorth = Round2(grown, err)

\* C20: in debugForecastCalculation and in the Forecast page's generateProjection
\* the savings are never negative: monthlySavings is availableIncome * savingsRate
\* / 100 when availableIncome = monthlyIncome - monthlyExpenses - monthlyEMIs is
\* above 0 and 0 otherwise, yearlySavings is 12 * monthlySavings, and with zero
\* savings projection point 1 is initialNetWorth * (1 + investmentReturn / 100).
C20_ForecastSavingsNeverNegative ==
    /\ LastCall("debugForecastCalculation") =>
          SavingsAsClaimed(call.result, call.result.projection, call.args[1],
                           call.args[2], call.args[3], call.args[4], call.args[5],
                           call.args[6], call.args[8])
    /\ LastCall("generateProjection") =>
          SavingsAsClaimed(call.result, call.result.projectionData, call.args[1],
                           call.args[2], call.args[3], call.args[4], call.args[6],
                           call.args[8], call.args[5])

(***************************************************************************)
(* debugForecastCalculation against generateWealthProjection               *)
(***************************************************************************)
\* the error signs with which the roundings of a projection gave the reported
\* netWorth values: both functions round the same doubles
ReplayedErrs(projection, initialNetWorth, yearlySavings, growthRate, years) ==
    [i \in 1 .. years + 1 |->
        IF /\ i <= Len(projection)
           /\ projection[i].netWorth #
                  Round2(NetWorthAt(initialNetWorth, yearlySavings, growthRate, i - 1), 1)
        THEN -1 ELSE 1]

\* C21: the debug projection has exactly min(5, years) + 1 points, and its i-th
\* point has the year and the netWorth of the i-th point of
\* generateWealthProjection(initialNetWorth, yearlySavings, investmentReturn, years)
\* for the yearlySavings debugForecastCalculation derives.
C21_DebugProjectionIsPrefix ==
    LastCall("debugForecastCalculation") =>
        LET debug == call.result.projection
            years == call.args[8]
            wealth == generateWealthProjection(call.args[1], call.result.yearlySavings,
                          call.args[6], years,
                          ReplayedErrs(debug, call.args[1], call.result.yearlySavings,
                                       call.args[6], years))
        IN  /\ Len(debug) = Min(5, years) + 1
            /\ \A i \in 1 .. Len(debug) :
                  /\ i <= Len(wealth)
                  /\ debug[i].year = wealth[i].year
                  /\ debug[i].netWorth = wealth[i].netWorth

\* a debug forecast over more than 5 years with savings and a return
C21_Witness ==
    /\ LastCall("debugForecastCalculation")
    /\ call.args[8] > 5
    /\ call.args[6] > 0
    /\ Lt(Num(0), call.result.yearlySavings)
    /\ Len(call.result.projection) = 6
    /\ call.result.projection[6].year = 5

(***************************************************************************)
(* Properties of debugNetWorthCalculation                                  *)
(***************************************************************************)
\* the sum of a sequence of whole amounts
RECURSIVE Total(_)
Total(amounts) == IF amounts = <<>> THEN 0 ELSE Head(amounts) + Total(Tail(amounts))

\* C22: debugNetWorthCalculation reports netWorth = the sum of the assets'
\* currentValue + the sum of the balances of the bank accounts whose isAsset is
\* true - the sum of the loans' principal; an account with isAsset false and an
\* empty list contribute nothing, and the result may be negative.
C22_NetWorthIsAssetsMinusLiabilities ==
    LastCall("debugNetWorthCalculation") =>
        LET assets == call.args[1]
            bankAccounts == call.args[2]
            loans == call.args[3]
        IN  call.result.summary.netWorth =
                Total([i \in 1 .. Len(assets) |-> assets[i].currentValue])
                + Total([i \in 1 .. Len(bankAccounts) |->
                            IF bankAccounts[i].isAsset THEN bankAccounts[i].balance
                            ELSE 0])
                - Total([i \in 1 .. Len(loans) |-> loans[i].principal])

\* a negative net worth, with no assets and an account that is not an asset
C22_Witness ==
    /\ LastCall("debugNetWorthCalculation")
    /\ call.args[1] = <<>>
    /\ \E i \in 1 .. Len(call.args[2]) :
          ~call.args[2][i].isAsset /\ call.args[2][i].balance > 0
    /\ \E i \in 1 .. Len(call.args[2]) : call.args[2][i].isAsset
    /\ call.args[3] # <<>>
    /\ call.result.summary.netWorth < 0

(***************************************************************************)
(* Properties of the monthly totals of the pages                           *)
(***************************************************************************)
\* a record's monthly figure by its frequency
ConvertedByFrequency(record) ==
    LET amount == Num(record.amount)
    IN  CASE record.frequency = "WEEKLY" -> Mul(amount, Rat(433, 100))
          [] record.frequency = "MONTHLY" -> amount
          [] record.frequency = "QUARTERLY" -> Div(amount, Num(3))
          [] record.frequency = "HALF_YEARLY" -> Div(amount, Num(6))
          [] record.frequency = "YEARLY" -> Div(amount, Num(12))
          [] record.frequency = "ONE_TIME" -> Num(0)

RECURSIVE ConvertedTotal(_)
ConvertedTotal(records) ==
    IF records = <<>> THEN Num(0)
    ELSE Add(ConvertedTotal(SubSeq(records, 1, Len(records) - 1)),
             ConvertedByFrequency(records[Len(records)]))

PageTotals == LastCall("loadData") \/ LastCall("calculateDashboardData")

\* C23: every page that aggregates income or expense records into a monthly
\* figure converts each record by its frequency (WEEKLY * 4.33, MONTHLY as is,
\* QUARTERLY / 3, HALF_YEARLY / 6, YEARLY / 12, ONE_TIME nothing), the Forecast
\* page and the Dashboard page alike, so both show the same monthly income and
\* expenses for the same stored records.
C23_MonthlyTotalsConvertByFrequency ==
    PageTotals =>
        /\ call.result.monthlyIncome = ConvertedTotal(call.args[4])
        /\ call.result.monthlyExpenses = ConvertedTotal(call.args[5])

\* the Forecast page alone converts by frequency
C23_ForecastConvertsByFrequency ==
    LastCall("loadData") =>
        /\ call.result.monthlyIncome = ConvertedTotal(call.args[4])
        /\ call.result.monthlyExpenses = ConvertedTotal(call.args[5])

\* the Dashboard page shows what the Forecast page shows for the same records
C23_DashboardShowsForecastTotals ==
    LastCall("calculateDashboardData") =>
        LET forecast == loadData(call.args[1], call.args[2], call.args[3],
                                 call.args[4], call.args[5])
        IN  /\ call.result.monthlyIncome = forecast.monthlyIncome
            /\ call.result.monthlyExpenses = forecast.monthlyExpenses

LastOperation(op) == ret.op = op

\* the items without the one at position index
Without(items, index) ==
    SubSeq(items, 1, index - 1) \o SubSeq(items, index + 1, Len(items))

\* the positions of the items with this id
PositionsOf(items, id) == {i \in 1 .. Len(items) : items[i].id = id}

RECURSIVE LinkedAmounts(_, _)
LinkedAmounts(incomes, id) ==
    IF incomes = <<>> THEN 0
    ELSE (IF Head(incomes).bankAccountId = id THEN Head(incomes).amount ELSE 0)
         + LinkedAmounts(Tail(incomes), id)

\* every income created is still stored: none was deleted
NothingDeleted == Len(storedIncomes) = uuid

\* the balance of the account with this id in the array
BalanceOf(accounts, id) == getById(accounts, id).balance

\* C26: over any sequence of income create and edit submissions, each account's
\* balance is the balance it was opened with plus the sum of the current amounts
\* of the stored incomes linked to it: an amount is credited exactly once, and
\* an edit that keeps the linked account does not credit it again.
C26_CreditedExactlyOnce ==
    NothingDeleted =>
        \A i \in 1 .. Len(storedAccounts) :
            storedAccounts[i].balance =
                storedAccounts[i].opening
                + LinkedAmounts(storedIncomes, storedAccounts[i].id)

\* the last step submitted an edit that moves an income from one account to another
EditMovesIncome ==
    /\ LastOperation("handleSubmit")
    /\ ret.valid
    /\ ret.currentIncome # Null
    /\ ret.currentIncome.bankAccountId # 0
    /\ ret.bankAccountId # 0
    /\ ret.currentIncome.bankAccountId # ret.bankAccountId

\* C27: an edit that changes the linked account from A to B moves the money as
\* one unit: A's balance falls by the income's old amount and B's balance rises
\* by the new amount, or neither balance changes; B is never credited while the
\* debit of A was refused or the update of the income failed.
C27_EditMovesMoneyAsOneUnit ==
    EditMovesIncome =>
        LET A == ret.currentIncome.bankAccountId
            B == ret.bankAccountId
            moved == /\ BalanceOf(storedAccounts, A)
                           = BalanceOf(ret.accounts, A) - ret.currentIncome.amount
                     /\ BalanceOf(storedAccounts, B)
                           = BalanceOf(ret.accounts, B) + ret.amount
            untouched == /\ BalanceOf(storedAccounts, A) = BalanceOf(ret.accounts, A)
                         /\ BalanceOf(storedAccounts, B) = BalanceOf(ret.accounts, B)
        IN  /\ moved \/ untouched
            /\ ret.credited => ret.debited /\ ret.saved # Null

\* an edit from one account to another that is saved and moves the money whole
C27_MovedWhole ==
    /\ EditMovesIncome
    /\ ret.saved # Null
    /\ ret.debited
    /\ ret.credited

\* the edits that are saved and whose debit is accepted move the money whole
C27_SavedEditMovesMoney ==
    (EditMovesIncome /\ ret.saved # Null /\ ret.debited) =>
        /\ ret.credited
        /\ BalanceOf(storedAccounts, ret.currentIncome.bankAccountId)
              = BalanceOf(ret.accounts, ret.currentIncome.bankAccountId)
                - ret.currentIncome.amount
        /\ BalanceOf(storedAccounts, ret.bankAccountId)
              = BalanceOf(ret.accounts, ret.bankAccountId) + ret.amount

(***************************************************************************)
(* Properties of two tabs updating a balance                               *)
(***************************************************************************)
\* both tabs have called updateBankAccountBalance on the same account, and both
\* calls have returned
BothReturned ==
    /\ tabs # <<>>
    /\ \A t \in Tabs : tabs[t].pc = "returned"
    /\ tabs[1].id = tabs[2].id

\* C28: two updateBankAccountBalance calls on the same account by two tabs,
\* interleaved at the reads and writes of localStorage, always leave the balance
\* equal to the initial balance plus both amounts: no interleaving loses an
\* update.
C28_NoLostUpdate ==
    BothReturned =>
        LET account == getById(storedAccounts, tabs[1].id)
        IN  account.balance = account.opening + tabs[1].amount + tabs[2].amount

\* some interleaving does keep both updates
C28_BothKept ==
    /\ BothReturned
    /\ LET account == getById(storedAccounts, tabs[1].id)
       IN  account.balance = account.opening + tabs[1].amount + tabs[2].amount

(***************************************************************************)
(* Properties of the Loans page                                            *)
(***************************************************************************)
\* the terms of the loan pass the checks of the form
TermsAreValid(loan) ==
    /\ loan.principal > 0
    /\ loan.interestRate > 0
    /\ loan.interestRate <= 40
    /\ loan.tenureMonths > 0

\* the emi stored is a finite number, the one calculateEMI returns for the terms
EmiIsCurrent(loan) ==
    /\ loan.emi # Null
    /\ IsFinite(loan.emi)
    /\ \E err \in ErrChoices(EmiFormula(loan.principal, loan.interestRate,
                                         loan.tenureMonths)) :
          loan.emi = calculateEMI(loan.principal, loan.interestRate,
                                  loan.tenureMonths, err)

\* C30: after any sequence of add, edit and delete submissions on the Loans page
\* every stored loan has principal > 0, 0 < interestRate <= 40, tenureMonths > 0
\* and an emi equal to calculateEMI of its current terms: no stored EMI is stale
\* or not finite.
C30_StoredLoansAreValid ==
    \A i \in 1 .. Len(storedLoans) :
        TermsAreValid(storedLoans[i]) /\ EmiIsCurrent(storedLoans[i])

\* the same for the loans whose growth factor is a finite double
C30_StoredLoansAreValidWithinDoubles ==
    \A i \in 1 .. Len(storedLoans) :
        /\ TermsAreValid(storedLoans[i])
        /\ storedLoans[i].tenureMonths < OverflowExponent => EmiIsCurrent(storedLoans[i])

\* a loan edited to other terms, stored with the emi of the new terms
C30_EditedLoanStored ==
    /\ LastOperation("handleSubmit")
    /\ ret.valid
    /\ ret.saved
    /\ uuid = 1
    /\ Len(storedLoans) = 1
    /\ storedLoans[1].interestRate = 40
    /\ storedLoans[1].tenureMonths = 2
    /\ EmiIsCurrent(storedLoans[1])

====
